---------------------------- MODULE Spec2Model ----------------------------
(***************************************************************************)
(* The two rewrite scripts of the repository,                              *)
(*    scripts/fix-synthesis-tests.py   and  scripts/fix-megaprompt-tests.py *)
(* Each reads one hard-coded file, applies its regular-expression rules    *)
(* with re.sub, writes the file back and prints one confirmation line.     *)
(*                                                                         *)
(* A text is a sequence of lexemes.  A maximal run of letters is one       *)
(* lexeme (a word); every other character (a space, a newline, a digit, a  *)
(* punctuation mark) is a lexeme of its own.  Every literal word of the    *)
(* patterns is delimited in the pattern by non-letters on both sides, with *)
(* one exception: the closing word ExtractionResult, whose right side is   *)
(* open; the texts considered here hold no longer word that begins with    *)
(* it.  On such texts matching lexeme by lexeme is matching character by   *)
(* character.                                                              *)
(***************************************************************************)
EXTENDS Integers, Sequences, FiniteSets, TLC

NL == "\n"

\* n spaces, one lexeme each
Sp(n) == [i \in 1..n |-> " "]

Digits == {"0", "1", "2", "3", "4", "5", "6", "7", "8", "9"}

(***************************************************************************)
(* The character classes of the patterns: \s, \d, [^'], [^}], [^\]].       *)
(***************************************************************************)
InClass(c, t) ==
    CASE c = "s"  -> t \in {" ", NL}
      [] c = "d"  -> t \in Digits
      [] c = "nq" -> t # "'"
      [] c = "nb" -> t # "}"
      [] c = "nk" -> t # "]"

(***************************************************************************)
(* Pattern items.  A pattern is a sequence of items:                       *)
(*   Lit(w)   the literal lexemes w                                        *)
(*   Plus(c)  class c, one or more, greedy                                 *)
(*   Star(c)  class c, zero or more, greedy                                *)
(*   Opt(w,g) the optional group g holding the literal w, greedy           *)
(*   Open(g), Close(g)  the parentheses of capture group g                 *)
(***************************************************************************)
Lit(w)    == [k |-> "lit",   v |-> w]
Plus(c)   == [k |-> "plus",  v |-> c]
Star(c)   == [k |-> "star",  v |-> c]
Opt(w, g) == [k |-> "opt",   v |-> w, g |-> g]
Open(g)   == [k |-> "open",  v |-> g]
Close(g)  == [k |-> "close", v |-> g]

MaxGroup == 7

\* a group that took no part in the match (Python: None)
NoSpan == <<1, 0>>

NoMatch == [ok |-> FALSE, start |-> 0, stop |-> 0, g |-> [i \in 1..MaxGroup |-> NoSpan]]

\* the lexemes w stand in text at position pos
HasAt(text, pos, w) ==
    /\ pos + Len(w) - 1 <= Len(text)
    /\ \A i \in 1..Len(w) : text[pos + i - 1] = w[i]

\* the leftmost position in lo..hi whose lexeme is not of class c, hi + 1 if none
RECURSIVE FirstOutside(_, _, _, _)
FirstOutside(text, c, lo, hi) ==
    IF lo > hi THEN hi + 1
    ELSE IF lo = hi THEN (IF InClass(c, text[lo]) THEN hi + 1 ELSE lo)
    ELSE LET half == (lo + hi) \div 2
             left == FirstOutside(text, c, lo, half)
         IN IF left <= half THEN left ELSE FirstOutside(text, c, half + 1, hi)

\* the same from lo to the end of text, looking at 1, 2, 4, ... lexemes at a time
RECURSIVE RunEnd(_, _, _, _)
RunEnd(text, c, lo, w) ==
    LET hi == IF lo + w - 1 < Len(text) THEN lo + w - 1 ELSE Len(text)
        at == FirstOutside(text, c, lo, hi)
    IN IF at <= hi \/ hi = Len(text) THEN at ELSE RunEnd(text, c, hi + 1, 2 * w)

\* length of the longest run of class c in text from position pos
RunLen(text, pos, c) == RunEnd(text, c, pos, 1) - pos

(***************************************************************************)
(* The backtracking matcher of the re module: items i.. of pat against     *)
(* text from position pos, groups so far g.  A greedy repetition takes the *)
(* longest run with which the rest of the pattern still matches.           *)
(***************************************************************************)
RECURSIVE MatchItems(_, _, _, _, _, _)
RECURSIVE Longest(_, _, _, _, _, _, _, _)

\* the repetition item i takes n lexemes, or failing that fewer, down to least
Longest(text, start, pos, pat, i, g, n, least) ==
    IF n < least THEN NoMatch
    ELSE LET rest == MatchItems(text, start, pos + n, pat, i + 1, g)
         IN IF rest.ok THEN rest
            ELSE Longest(text, start, pos, pat, i, g, n - 1, least)

MatchItems(text, start, pos, pat, i, g) ==
    IF i > Len(pat) THEN [ok |-> TRUE, start |-> start, stop |-> pos, g |-> g]
    ELSE LET it == pat[i] IN
      CASE it.k = "lit" ->
             IF HasAt(text, pos, it.v)
             THEN MatchItems(text, start, pos + Len(it.v), pat, i + 1, g)
             ELSE NoMatch
        [] it.k = "plus" ->
             Longest(text, start, pos, pat, i, g, RunLen(text, pos, it.v), 1)
        [] it.k = "star" ->
             Longest(text, start, pos, pat, i, g, RunLen(text, pos, it.v), 0)
        [] it.k = "opt" ->
             LET taken == IF HasAt(text, pos, it.v)
                          THEN MatchItems(text, start, pos + Len(it.v), pat, i + 1,
                                 [g EXCEPT ![it.g] = <<pos, pos + Len(it.v) - 1>>])
                          ELSE NoMatch
             IN IF taken.ok THEN taken
                ELSE MatchItems(text, start, pos, pat, i + 1, g)
        [] it.k = "open" ->
             MatchItems(text, start, pos, pat, i + 1, [g EXCEPT ![it.v] = <<pos, pos - 1>>])
        [] it.k = "close" ->
             MatchItems(text, start, pos, pat, i + 1, [g EXCEPT ![it.v] = <<g[it.v][1], pos - 1>>])

\* the match of pat that starts at position p of text, if there is one
MatchAt(text, p, pat) == MatchItems(text, p, p, pat, 1, NoMatch.g)

\* match.group(n)
Group(text, m, n) == SubSeq(text, m.g[n][1], m.g[n][2])

(***************************************************************************)
(* re.sub's scan: the leftmost match at or after position from, then the   *)
(* leftmost at or after its end, and so on (no pattern here matches the    *)
(* empty string).                                                          *)
(***************************************************************************)
RECURSIVE Scan(_, _, _, _)
Scan(text, pat, starts, from) ==
    LET later == {p \in starts : p >= from} IN
    IF later = {} THEN << >>
    ELSE LET p == CHOOSE x \in later : \A y \in later : x <= y
             m == MatchAt(text, p, pat)
         IN <<m>> \o Scan(text, pat, starts, m.stop)

\* the item of pat at or after i that is first to take a lexeme
RECURSIVE FirstTaking(_, _)
FirstTaking(pat, i) ==
    IF pat[i].k \in {"open", "close"} THEN FirstTaking(pat, i + 1) ELSE pat[i]

\* the lexeme x can be the first of a match of a pattern that begins with item it
CanBegin(it, x) ==
    CASE it.k = "lit"  -> x = it.v[1]
      [] it.k = "plus" -> InClass(it.v, x)
      [] OTHER         -> TRUE

\* starts: every position at which a match of pat begins
FindAll(text, pat) ==
    LET first == FirstTaking(pat, 1)
    IN Scan(text, pat,
            {p \in 1..Len(text) : CanBegin(first, text[p]) /\ MatchAt(text, p, pat).ok}, 1)

(***************************************************************************)
(* fix-synthesis-tests.py                                                  *)
(***************************************************************************)
synthesis_filepath == "src/services/v2/synthesis/__tests__/OpusSynthesisService.test.ts"

\* the indentation the pattern and the template spell out in spaces
BraceIndent == 10
FieldIndent == 12
InnerIndent == 14

DateNow == <<"Date", ".", "now", "(", ")">>

synthesis_pattern ==
    <<  Lit(Sp(BraceIndent) \o <<"{", NL>>),
        Lit(Sp(FieldIndent) \o <<"extractorId", ":", " ", "'">>),
        Open(1), Plus("nq"), Close(1),
        Lit(<<"'", ",", NL>>),
        Lit(Sp(FieldIndent) \o <<"confidence", ":", " ">>),
        Open(2), Lit(<<"0", ".">>), Plus("d"), Close(2),
        Opt(<<" ", "as", " ", "any">>, 3),
        Lit(<<",", NL>>),
        Lit(Sp(FieldIndent) \o <<"dataPoints", ":", " ">>),
        Open(4), Plus("d"), Close(4),
        Lit(<<",", NL>>),
        Lit(Sp(FieldIndent) \o <<"data", ":", " ">>),
        Open(5), Lit(<<"{">>), Star("nb"), Lit(<<"}">>), Close(5),
        Lit(<<",", NL>>),
        Lit(Sp(FieldIndent) \o <<"timestamp", ":", " ">> \o DateNow \o <<",", NL>>),
        Lit(Sp(FieldIndent) \o <<"duration", ":", " ">>),
        Open(6), Plus("d"), Close(6),
        Lit(<<",", NL>>),
        Lit(Sp(BraceIndent) \o <<"}">>) >>

\* a template item: literal lexemes, or the back-reference \n
Ref(n) == [k |-> "ref", v |-> n]

CustomerProfileAsAny == <<"'", "customer", "_", "profile", "'", " ", "as", " ", "any">>
HaikuAsAny == <<"'", "HAIKU", "'", " ", "as", " ", "any">>

synthesis_replacement ==
    <<  Lit(Sp(BraceIndent) \o <<"{", NL>>),
        Lit(Sp(FieldIndent) \o <<"success", ":", " ", "true", ",", NL>>),
        Lit(Sp(FieldIndent) \o <<"data", ":", " ">>), Ref(5), Lit(<<",", NL>>),
        Lit(Sp(FieldIndent) \o <<"confidence", ":", " ", "{", NL>>),
        Lit(Sp(InnerIndent) \o <<"overall", ":", " ">>), Ref(2), Lit(<<",", NL>>),
        Lit(Sp(InnerIndent) \o <<"dataQuality", ":", " ">>), Ref(2), Lit(<<",", NL>>),
        Lit(Sp(InnerIndent) \o <<"sourceCount", ":", " ">>), Ref(4), Lit(<<",", NL>>),
        Lit(Sp(FieldIndent) \o <<"}", ",", NL>>),
        Lit(Sp(FieldIndent) \o <<"metadata", ":", " ", "{", NL>>),
        Lit(Sp(InnerIndent) \o <<"extractorId", ":", " ", "'">>), Ref(1), Lit(<<"'", ",", NL>>),
        Lit(Sp(InnerIndent) \o <<"taskType", ":", " ">> \o CustomerProfileAsAny \o <<",", NL>>),
        Lit(Sp(InnerIndent) \o <<"model", ":", " ">> \o HaikuAsAny \o <<",", NL>>),
        Lit(Sp(InnerIndent) \o <<"fromCache", ":", " ", "false", ",", NL>>),
        Lit(Sp(InnerIndent) \o <<"timing", ":", " ", "{", " ", "total", ":", " ">>),
        Ref(6), Lit(<<" ", "}", ",", NL>>),
        Lit(Sp(InnerIndent) \o <<"timestamp", ":", " ">> \o DateNow \o <<",", NL>>),
        Lit(Sp(FieldIndent) \o <<"}", ",", NL>>),
        Lit(Sp(BraceIndent) \o <<"}", " ", "as", " ", "any">>) >>

\* re.sub's expansion of a template string for the match m of text
RECURSIVE Expand(_, _, _, _)
Expand(tpl, i, text, m) ==
    IF i > Len(tpl) THEN << >>
    ELSE (IF tpl[i].k = "ref" THEN Group(text, m, tpl[i].v) ELSE tpl[i].v)
         \o Expand(tpl, i + 1, text, m)

(***************************************************************************)
(* fix-megaprompt-tests.py                                                 *)
(***************************************************************************)
megaprompt_filepath == "src/services/v2/synthesis/__tests__/MegaPromptGenerator.test.ts"

megaprompt_pattern ==
    <<  Open(1), Plus("s"), Close(1),
        Open(2), Lit(<<"{", NL>>),
        Plus("s"), Lit(<<"extractorId", ":", " ", "'">>),
        Open(3), Plus("nq"), Close(3),
        Lit(<<"'", ",", NL>>),
        Plus("s"), Lit(<<"confidence", ":", " ">>),
        Open(4), Lit(<<"0", ".">>), Plus("d"), Close(4),
        Lit(<<",", NL>>),
        Plus("s"), Lit(<<"dataPoints", ":", " ">>),
        Open(5), Plus("d"), Close(5),
        Lit(<<",", NL>>),
        Plus("s"), Lit(<<"data", ":", " ">>),
        Open(6), Lit(<<"{">>), Plus("nb"), Lit(<<"}">>), Close(6),
        Lit(<<",", NL>>),
        Plus("s"), Lit(<<"timestamp", ":", " ">> \o DateNow \o <<",", NL>>),
        Plus("s"), Lit(<<"duration", ":", " ">>),
        Open(7), Plus("d"), Close(7),
        Lit(<<",", NL>>),
        Plus("s"), Lit(<<"}">>), Close(2),
        Lit(<<" ", "as", " ", "ExtractionResult">>) >>

megaprompt_pattern2 ==
    <<  Open(1), Plus("s"), Close(1),
        Open(2), Lit(<<"{", NL>>),
        Plus("s"), Lit(<<"extractorId", ":", " ", "'">>),
        Open(3), Plus("nq"), Close(3),
        Lit(<<"'", ",", NL>>),
        Plus("s"), Lit(<<"confidence", ":", " ">>),
        Open(4), Lit(<<"0", ".">>), Plus("d"), Close(4),
        Lit(<<",", NL>>),
        Plus("s"), Lit(<<"dataPoints", ":", " ">>),
        Open(5), Plus("d"), Close(5),
        Lit(<<",", NL>>),
        Plus("s"), Lit(<<"data", ":", " ", "{", "}", ",", NL>>),
        Plus("s"), Lit(<<"metadata", ":", " ", "{", " ", "insights", ":", " ", "[">>),
        Plus("nk"), Lit(<<"]", " ", "}", ",", NL>>),
        Plus("s"), Lit(<<"timestamp", ":", " ">> \o DateNow \o <<",", NL>>),
        Plus("s"), Lit(<<"duration", ":", " ">>),
        Open(6), Plus("d"), Close(6),
        Lit(<<",", NL>>),
        Plus("s"), Lit(<<"}">>), Close(2),
        Lit(<<" ", "as", " ", "ExtractionResult">>) >>

\* the f-string both callbacks return, for the captured values
NestedText(indent, extractorId, confidence, dataPoints, data, duration) ==
       indent \o <<"{", NL>>
    \o indent \o Sp(2) \o <<"success", ":", " ", "true", ",", NL>>
    \o indent \o Sp(2) \o <<"data", ":", " ">> \o data \o <<",", NL>>
    \o indent \o Sp(2) \o <<"confidence", ":", " ", "{", NL>>
    \o indent \o Sp(4) \o <<"overall", ":", " ">> \o confidence \o <<",", NL>>
    \o indent \o Sp(4) \o <<"dataQuality", ":", " ">> \o confidence \o <<",", NL>>
    \o indent \o Sp(4) \o <<"sourceCount", ":", " ">> \o dataPoints \o <<",", NL>>
    \o indent \o Sp(2) \o <<"}", ",", NL>>
    \o indent \o Sp(2) \o <<"metadata", ":", " ", "{", NL>>
    \o indent \o Sp(4) \o <<"extractorId", ":", " ", "'">> \o extractorId \o <<"'", ",", NL>>
    \o indent \o Sp(4) \o <<"taskType", ":", " ">> \o CustomerProfileAsAny \o <<",", NL>>
    \o indent \o Sp(4) \o <<"model", ":", " ">> \o HaikuAsAny \o <<",", NL>>
    \o indent \o Sp(4) \o <<"fromCache", ":", " ", "false", ",", NL>>
    \o indent \o Sp(4) \o <<"timing", ":", " ", "{", " ", "total", ":", " ">>
                      \o duration \o <<" ", "}", ",", NL>>
    \o indent \o Sp(4) \o <<"timestamp", ":", " ">> \o DateNow \o <<",", NL>>
    \o indent \o Sp(2) \o <<"}", ",", NL>>
    \o indent \o <<"}", " ", "as", " ", "any">>

\* a callback that takes the duration for the sourceCount and the dataPoints
\* for the timing
megaprompt_replacement_swapped(text, m) ==
    NestedText(Group(text, m, 1), Group(text, m, 3), Group(text, m, 4),
               Group(text, m, 7), Group(text, m, 6), Group(text, m, 5))

megaprompt_replacement(text, m) ==
    LET indent      == Group(text, m, 1)
        extractorId == Group(text, m, 3)
        confidence  == Group(text, m, 4)
        dataPoints  == Group(text, m, 5)
        data        == Group(text, m, 6)
        duration    == Group(text, m, 7)
    IN NestedText(indent, extractorId, confidence, dataPoints, data, duration)

\* a callback that keeps the metadata object of the match as the data
megaprompt_replacement2_keeping(text, m) ==
    LET a    == CHOOSE i \in m.start..m.stop : text[i] = "metadata"
        b    == CHOOSE j \in a..m.stop :
                   text[j] = "]" /\ \A z \in a..(j - 1) : text[z] # "]"
        kept == SubSeq(text, a + 3, b + 2)
    IN NestedText(Group(text, m, 1), Group(text, m, 3), Group(text, m, 4),
                  Group(text, m, 5), kept, Group(text, m, 6))

megaprompt_replacement2(text, m) ==
    LET indent      == Group(text, m, 1)
        extractorId == Group(text, m, 3)
        confidence  == Group(text, m, 4)
        dataPoints  == Group(text, m, 5)
        duration    == Group(text, m, 6)
    IN NestedText(indent, extractorId, confidence, dataPoints, <<"{", "}">>, duration)

(***************************************************************************)
(* The rules of a script, in the order it applies them, and the text a     *)
(* rule puts in the place of a match.                                      *)
(***************************************************************************)
Scripts == {"synthesis", "megaprompt"}

RuleCount(s) == IF s = "synthesis" THEN 1 ELSE 2

\* the rules with the first pattern of fix-megaprompt-tests ending at the
\* closing brace, whatever follows it
PatternAnySuffix(s, r) ==
    IF s = "synthesis" THEN synthesis_pattern
    ELSE IF r = 1 THEN SubSeq(megaprompt_pattern, 1, Len(megaprompt_pattern) - 1)
    ELSE megaprompt_pattern2

Pattern(s, r) ==
    IF s = "synthesis" THEN synthesis_pattern
    ELSE IF r = 1 THEN megaprompt_pattern ELSE megaprompt_pattern2

\* a replacement that leaves the match and casts it
ReplacementKeeping(s, r, text, m) ==
    SubSeq(text, m.start, m.stop - 1) \o <<" ", "as", " ", "any">>

Replacement(s, r, text, m) ==
    IF s = "synthesis" THEN Expand(synthesis_replacement, 1, text, m)
    ELSE IF r = 1 THEN megaprompt_replacement(text, m)
    ELSE megaprompt_replacement2(text, m)

\* the text with every match of found, in order, replaced
RECURSIVE Splice(_, _, _, _, _, _)
Splice(s, r, text, found, k, from) ==
    IF k > Len(found) THEN SubSeq(text, from, Len(text))
    ELSE    SubSeq(text, from, found[k].start - 1)
         \o Replacement(s, r, text, found[k])
         \o Splice(s, r, text, found, k + 1, found[k].stop)

\* re.sub that loses the text after the last match
SubTruncating(s, r, text) ==
    LET found == FindAll(text, Pattern(s, r))
        upto  == IF found = << >> THEN Len(text) ELSE found[Len(found)].stop - 1
    IN [found |-> found, text |-> Splice(s, r, SubSeq(text, 1, upto), found, 1, 1)]

\* re.sub(pattern, replacement, text, count=1)
SubFirst(s, r, text) ==
    LET all   == FindAll(text, Pattern(s, r))
        found == IF all = << >> THEN << >> ELSE <<all[1]>>
    IN [found |-> found, text |-> Splice(s, r, text, found, 1, 1)]

\* re.sub(pattern, replacement, text): the matches it finds and the text it returns
Sub(s, r, text) ==
    LET found == FindAll(text, Pattern(s, r))
    IN [found |-> found, text |-> Splice(s, r, text, found, 1, 1)]

(***************************************************************************)
(* The file the script finds on disk.  A test file is a bracketed list of  *)
(* object literals; each is one of the shapes below.                       *)
(***************************************************************************)
AsExtractionResult == <<" ", "as", " ", "ExtractionResult">>
AsAny == <<" ", "as", " ", "any">>

\* a flat object literal, one field to a line: lead before its opening brace,
\* fields indented by ind + 2 spaces, the closing brace by ind spaces
FlatObject(lead, ind, E, C, cast, N, D, extra, T, suffix) ==
       lead \o <<"{", NL>>
    \o Sp(ind + 2) \o <<"extractorId", ":", " ", "'">> \o E \o <<"'", ",", NL>>
    \o Sp(ind + 2) \o <<"confidence", ":", " ">> \o C \o cast \o <<",", NL>>
    \o Sp(ind + 2) \o <<"dataPoints", ":", " ">> \o N \o <<",", NL>>
    \o Sp(ind + 2) \o <<"data", ":", " ">> \o D \o <<",", NL>>
    \o extra
    \o Sp(ind + 2) \o <<"timestamp", ":", " ">> \o DateNow \o <<",", NL>>
    \o Sp(ind + 2) \o <<"duration", ":", " ">> \o T \o <<",", NL>>
    \o Sp(ind) \o <<"}">> \o suffix

Insights(ind, items) ==
    Sp(ind + 2) \o <<"metadata", ":", " ", "{", " ", "insights", ":", " ", "[">>
               \o items \o <<"]", " ", "}", ",", NL>>

\* the literal of the specification's capture-fidelity property, on one line
InlineObject ==
    <<"{", " ", "extractorId", ":", " ", "'", "demographics", "'", ",", " ",
      "confidence", ":", " ", "0", ".", "8", "5", ",", " ",
      "dataPoints", ":", " ", "3", ",", " ",
      "data", ":", " ", "{", "foo", ":", " ", "1", "}", ",", " ",
      "timestamp", ":", " ">> \o DateNow \o <<",", " ",
      "duration", ":", " ", "1", "2", "0", " ", "}">>

\* an object literal of another shape
UnrelatedObject ==
       Sp(2) \o <<"{", NL>>
    \o Sp(4) \o <<"name", ":", " ", "'", "x", "'", ",", NL>>
    \o Sp(4) \o <<"value", ":", " ", "1", ",", NL>>
    \o Sp(2) \o <<"}">>

\* the shapes the file of each script may hold
Shapes(s) ==
    IF s = "synthesis"
    THEN {"canon10", "plain10", "cast10", "empty10", "deep12", "nested10",
          "canon2", "inline"}
    ELSE {"canon2", "insights2", "absorb", "nested2", "empty2", "bare2", "inline"}

Shape(id) ==
    CASE id = "canon10" ->
           FlatObject(Sp(10), 10, <<"demographics">>, <<"0", ".", "8", "5">>, << >>,
                      <<"3">>, <<"{", "foo", ":", " ", "1", "}">>, << >>,
                      <<"1", "2", "0">>, AsExtractionResult)
      [] id = "plain10" ->
           FlatObject(Sp(10), 10, <<"pricing">>, <<"0", ".", "7">>, << >>,
                      <<"1", "2">>, <<"{", " ", "bar", ":", " ", "'", "x", "'", " ", "}">>,
                      << >>, <<"4", "5">>, << >>)
      [] id = "cast10" ->
           FlatObject(Sp(10), 10, <<"psych">>, <<"0", ".", "9", "1">>, AsAny,
                      <<"7">>, <<"{", "k", ":", " ", "2", "}">>, << >>, <<"6", "0">>, << >>)
      [] id = "nested10" ->
           FlatObject(Sp(10), 10, <<"market">>, <<"0", ".", "6">>, << >>, <<"5">>,
                      <<"{", " ", "a", ":", " ", "{", " ", "b", ":", " ", "1", " ", "}", " ", "}">>,
                      << >>, <<"8", "0">>, AsExtractionResult)
      [] id = "empty10" ->
           FlatObject(Sp(10), 10, <<"brand">>, <<"0", ".", "4">>, << >>, <<"2">>,
                      <<"{", "}">>, << >>, <<"3", "0">>, AsExtractionResult)
      [] id = "deep12" ->
           FlatObject(Sp(12), 10, <<"voice">>, <<"0", ".", "3">>, << >>, <<"9">>,
                      <<"{", "v", ":", " ", "3", "}">>, << >>, <<"1", "5">>, << >>)
      [] id = "nested2" ->
           FlatObject(Sp(2), 2, <<"market">>, <<"0", ".", "6">>, << >>, <<"5">>,
                      <<"{", " ", "a", ":", " ", "{", " ", "b", ":", " ", "1", " ", "}", " ", "}">>,
                      << >>, <<"8", "0">>, AsExtractionResult)
      [] id = "empty2" ->
           FlatObject(Sp(2), 2, <<"brand">>, <<"0", ".", "4">>, << >>, <<"2">>,
                      <<"{", "}">>, << >>, <<"3", "0">>, AsExtractionResult)
      [] id = "bare2" ->
           FlatObject(Sp(2), 2, <<"pricing">>, <<"0", ".", "7">>, << >>,
                      <<"1", "2">>, <<"{", " ", "bar", ":", " ", "'", "x", "'", " ", "}">>,
                      << >>, <<"4", "5">>, << >>)
      [] id = "canon2" ->
           FlatObject(Sp(2), 2, <<"needs">>, <<"0", ".", "5">>, << >>, <<"4">>,
                      <<"{", "n", ":", " ", "4", "}">>, << >>, <<"7", "5">>,
                      AsExtractionResult)
      [] id = "insights2" ->
           FlatObject(Sp(2), 2, <<"trends">>, <<"0", ".", "6", "5">>, << >>, <<"8">>,
                      <<"{", "}">>,
                      Insights(2, <<"'", "a", "'", ",", " ", "'", "b", "'">>),
                      <<"2", "0", "0">>, AsExtractionResult)
      [] id = "absorb" ->
           FlatObject(Sp(2), 2, <<"outer">>, <<"0", ".", "1">>, << >>, <<"1">>,
                      <<"{", "}">>,
                      Insights(2, <<NL>>
                                  \o FlatObject(Sp(4), 4, <<"inner">>, <<"0", ".", "9">>,
                                       << >>, <<"2">>, <<"{", "i", ":", " ", "6", "}">>,
                                       << >>, <<"1", "1">>, AsExtractionResult)
                                  \o <<NL>> \o Sp(2)),
                      <<"2", "2">>, AsExtractionResult)
      [] id = "inline" -> Sp(2) \o InlineObject
      [] id = "unrelated" -> UnrelatedObject

ListOpen == <<"[", NL>>
ListSep == <<",", NL>>
ListClose == <<"]", NL>>

RECURSIVE Items(_, _)
Items(parts, i) ==
    IF i > Len(parts) THEN << >>
    ELSE Shape(parts[i]) \o ListSep \o Items(parts, i + 1)

\* the text of the file that holds the shapes parts, in order
FileText(parts) == ListOpen \o Items(parts, 1) \o ListClose

MaxParts == 2
MaxRuns == 2

\* the scenario of the specification: ScenarioK objects a rule of the script
\* matches (of one shape, or of two in turn) and one object of another shape,
\* which stands at any place among them
ScenarioK == 3

Matching(s) == IF s = "synthesis" THEN {"canon10", "cast10"} ELSE {"canon2", "insights2"}

ScenarioList(u, odd, even) ==
    [i \in 1..(ScenarioK + 1) |->
        IF i = u THEN "unrelated" ELSE IF i % 2 = 1 THEN odd ELSE even]

ScenarioLists(s) ==
    {ScenarioList(u, odd, even) :
        u \in 1..(ScenarioK + 1), odd \in Matching(s), even \in Matching(s)}

PartLists(s) == UNION {[1..n -> Shapes(s)] : n \in 1..MaxParts}

(***************************************************************************)
(* The run of a script.                                                    *)
(*   script   the script that is run                                       *)
(*   exists   the target file exists                                       *)
(*   disk     the target file's text                                       *)
(*   content  the script's variable content                                *)
(*   pc       the statement the run is at                                  *)
(*   stdout   the lines printed so far                                     *)
(*   error    the exception a run ended with                               *)
(* and, for stating properties,                                            *)
(*   parts    the shapes the file held before the first run                *)
(*   run      the number of the run                                        *)
(*   text0    the text the run read                                        *)
(*   mid      the text after the first rule                                *)
(*   found1, found2  the matches the first and the second rule replaced    *)
(***************************************************************************)
VARIABLES script, exists, disk, content, pc, stdout, error,
          parts, run, text0, mid, found1, found2

vars == <<script, exists, disk, content, pc, stdout, error,
          parts, run, text0, mid, found1, found2>>

filepath == IF script = "synthesis" THEN synthesis_filepath ELSE megaprompt_filepath

Fresh ==
    /\ content = << >>
    /\ pc = "read"
    /\ stdout = << >>
    /\ error = ""
    /\ run = 1
    /\ text0 = << >>
    /\ mid = << >>
    /\ found1 = << >>
    /\ found2 = << >>

Init ==
    /\ script \in Scripts
    /\ exists \in BOOLEAN
    /\ parts \in (IF exists THEN PartLists(script) \cup ScenarioLists(script) ELSE {<< >>})
    /\ disk = (IF exists THEN FileText(parts) ELSE << >>)
    /\ Fresh

\* with open(filepath, 'r') as f: content = f.read()
Read ==
    /\ pc = "read"
    /\ exists
    /\ content' = disk
    /\ text0' = disk
    /\ mid' = << >>
    /\ found1' = << >>
    /\ found2' = << >>
    /\ pc' = "rule1"
    /\ UNCHANGED <<script, exists, disk, stdout, error, parts, run>>

\* the error caught, and the run going on with an empty text
ReadSwallowed ==
    /\ pc = "read"
    /\ ~exists
    /\ content' = << >>
    /\ text0' = << >>
    /\ pc' = "rule1"
    /\ UNCHANGED <<script, exists, disk, stdout, error, parts, run, mid, found1, found2>>

\* open() raises FileNotFoundError, which nothing catches
ReadFail ==
    /\ pc = "read"
    /\ ~exists
    /\ error' = "FileNotFoundError"
    /\ pc' = "crashed"
    /\ UNCHANGED <<script, exists, disk, content, stdout, parts, run, text0, mid,
                   found1, found2>>

\* content = re.sub(pattern, replacement, content)
ApplyRule1 ==
    /\ pc = "rule1"
    /\ LET res == Sub(script, 1, content)
       IN /\ found1' = res.found
          /\ content' = res.text
          /\ mid' = res.text
    /\ pc' = (IF RuleCount(script) = 1 THEN "write" ELSE "rule2")
    /\ UNCHANGED <<script, exists, disk, stdout, error, parts, run, text0, found2>>

\* content = re.sub(pattern2, replacement2, content)
ApplyRule2 ==
    /\ pc = "rule2"
    /\ LET res == Sub(script, 2, content)
       IN /\ found2' = res.found
          /\ content' = res.text
    /\ pc' = "write"
    /\ UNCHANGED <<script, exists, disk, stdout, error, parts, run, text0, mid, found1>>

\* with open(filepath, 'w') as f: f.write(content)
Write ==
    /\ pc = "write"
    /\ disk' = content
    /\ exists' = TRUE
    /\ pc' = "print"
    /\ UNCHANGED <<script, content, stdout, error, parts, run, text0, mid, found1, found2>>

\* print(f"Fixed {filepath}")
PrintFixed ==
    /\ pc = "print"
    /\ stdout' = Append(stdout, <<"Fixed", filepath>>)
    /\ pc' = "done"
    /\ UNCHANGED <<script, exists, disk, content, error, parts, run, text0, mid,
                   found1, found2>>

\* the script is run once more
RunAgain ==
    /\ pc \in {"done", "crashed"}
    /\ run < MaxRuns
    /\ run' = run + 1
    /\ pc' = "read"
    /\ content' = << >>
    /\ error' = ""
    /\ UNCHANGED <<script, exists, disk, stdout, parts, text0, mid, found1, found2>>

Next ==
    \/ Read
    \/ ReadFail
    \/ ApplyRule1
    \/ ApplyRule2
    \/ Write
    \/ PrintFixed
    \/ RunAgain

Spec == Init /\ [][Next]_vars

(***************************************************************************)
(* Reading an object literal out of a text, for stating the properties.    *)
(* The reader knows nothing of the patterns: an object runs from a brace   *)
(* to the brace that closes it, a field of it is a word followed by a      *)
(* colon directly inside it, and the field's value runs to the next comma  *)
(* or closing brace directly inside the object.                            *)
(***************************************************************************)
Openers == {"{", "["}
Closers == {"}", "]"}

\* the positions of the brackets of t
Brackets(t) == {q \in 1..Len(t) : t[q] \in Openers \cup Closers}

\* how many brackets (b: the brackets of t) are open just before position j
DepthBefore(t, b, j) ==
      Cardinality({q \in b : q < j /\ t[q] \in Openers})
    - Cardinality({q \in b : q < j /\ t[q] \in Closers})

\* the position of the bracket that closes the one at p, 0 if there is none
ObjClose(t, b, p) ==
    LET d == DepthBefore(t, b, p)
        closing == {q \in b : q > p /\ t[q] \in Closers /\ DepthBefore(t, b, q) = d + 1}
    IN IF closing = {} THEN 0 ELSE CHOOSE q \in closing : \A x \in closing : q <= x

\* the positions of the fields directly inside the object at p
FieldPositions(t, b, p) ==
    LET d == DepthBefore(t, b, p) IN
    {i \in (p + 1)..(ObjClose(t, b, p) - 1) :
        /\ t[i + 1] = ":"
        /\ t[i] \notin Openers \cup Closers \cup {" ", NL, ",", ":", "'"}
        /\ t[i - 1] \in {" ", NL, "{", ","}
        /\ DepthBefore(t, b, i) = d + 1}

Keys(t, b, p) == {t[i] : i \in FieldPositions(t, b, p)}

IsSpace(x) == x \in {" ", NL}

\* t without the white space at its two ends
Trim(t) ==
    LET solid == {i \in 1..Len(t) : ~IsSpace(t[i])} IN
    IF solid = {} THEN << >>
    ELSE SubSeq(t, CHOOSE i \in solid : \A j \in solid : i <= j,
                   CHOOSE i \in solid : \A j \in solid : j <= i)

\* the value of field key of the object at p (the field is there)
ValueOf(t, b, p, key) ==
    LET d == DepthBefore(t, b, p)
        i == CHOOSE x \in FieldPositions(t, b, p) : t[x] = key
        ends(j) == t[j] \in {",", "}"} /\ DepthBefore(t, b, j) = d + 1
        j == CHOOSE x \in (i + 2)..Len(t) : ends(x)
    IN Trim(SubSeq(t, i + 2, j - 1))

\* the position at which the value of field key of the object at p begins
ObjectOf(t, b, p, key) ==
    LET i == CHOOSE x \in FieldPositions(t, b, p) : t[x] = key
    IN CHOOSE x \in (i + 2)..Len(t) : ~IsSpace(t[x])

Braces(t) == {p \in 1..Len(t) : t[p] = "{"}

FlatKeys == {"extractorId", "confidence", "dataPoints", "data", "timestamp", "duration"}

\* the object at p is a flat object literal
IsFlat(t, b, p) ==
    /\ t[p] = "{"
    /\ ObjClose(t, b, p) # 0
    /\ Keys(t, b, p) = FlatKeys
    /\ ValueOf(t, b, p, "timestamp") = DateNow

\* the object at p has the nested form
IsNested(t, b, p) ==
    /\ t[p] = "{"
    /\ ObjClose(t, b, p) # 0
    /\ Keys(t, b, p) = {"success", "data", "confidence", "metadata"}
    /\ Keys(t, b, ObjectOf(t, b, p, "confidence")) = {"overall", "dataQuality", "sourceCount"}
    /\ Keys(t, b, ObjectOf(t, b, p, "metadata"))
         = {"extractorId", "taskType", "model", "fromCache", "timing", "timestamp"}
    /\ Keys(t, b, ObjectOf(t, b, ObjectOf(t, b, p, "metadata"), "timing")) = {"total"}

\* a number with any cast after it cut off
Number(v) ==
    LET other == {i \in 1..Len(v) : v[i] \notin Digits \cup {"."}} IN
    IF other = {} THEN v
    ELSE SubSeq(v, 1, (CHOOSE i \in other : \A j \in other : i <= j) - 1)

\* the nested object at q of t has, field by field, the values of the flat
\* object at p of x (data: the payload it is to hold)
Carries(t, b, q, x, bx, p, data) ==
    LET conf   == ObjectOf(t, b, q, "confidence")
        meta   == ObjectOf(t, b, q, "metadata")
        timing == ObjectOf(t, b, meta, "timing")
    IN /\ IsNested(t, b, q)
       /\ ValueOf(t, b, q, "data") = data
       /\ ValueOf(t, b, conf, "overall") = Number(ValueOf(x, bx, p, "confidence"))
       /\ ValueOf(t, b, conf, "sourceCount") = ValueOf(x, bx, p, "dataPoints")
       /\ ValueOf(t, b, meta, "extractorId") = ValueOf(x, bx, p, "extractorId")
       /\ ValueOf(t, b, timing, "total") = ValueOf(x, bx, p, "duration")

(***************************************************************************)
(* Where a rule's matches and replacements lie.  The rule r of script s    *)
(* was applied to the text x and replaced the matches f.                   *)
(***************************************************************************)
AfterRule(r) ==
    IF r = 1 THEN pc \in {"rule2", "write", "print", "done"}
    ELSE script = "megaprompt" /\ pc \in {"write", "print", "done"}

\* the state right after rule r was applied
JustAfterRule(r) ==
    IF r = 1 THEN pc = (IF RuleCount(script) = 1 THEN "write" ELSE "rule2")
    ELSE script = "megaprompt" /\ pc = "write"

\* by how much the replacement of match m is longer than the match
Growth(s, r, x, m) == Len(Replacement(s, r, x, m)) - (m.stop - m.start)

\* by how much the replacements of the first k matches are longer in all
RECURSIVE Shift(_, _, _, _, _)
Shift(s, r, x, f, k) ==
    IF k = 0 THEN 0 ELSE Shift(s, r, x, f, k - 1) + Growth(s, r, x, f[k])

\* the places of the replacements from the k-th on, the earlier ones being
\* longer than their matches by shift in all
RECURSIVE OutSpansFrom(_, _, _, _, _, _)
OutSpansFrom(s, r, x, f, k, shift) ==
    IF k > Len(f) THEN << >>
    ELSE LET longer == shift + Growth(s, r, x, f[k])
         IN <<[start |-> f[k].start + shift, stop |-> f[k].stop + longer]>>
            \o OutSpansFrom(s, r, x, f, k + 1, longer)

\* the place of the k-th replacement in the rule's output: start.. stop - 1
OutSpans(s, r, x, f) == OutSpansFrom(s, r, x, f, 1, 0)

\* where position p of x, outside every match, lies in the rule's output
Moved(s, r, x, f, p) ==
    p + Shift(s, r, x, f, Cardinality({k \in 1..Len(f) : f[k].stop <= p}))

\* the texts between the spans f of x: before the first, between, after the last
Gaps(x, f) ==
    [k \in 1..(Len(f) + 1) |->
        SubSeq(x, IF k = 1 THEN 1 ELSE f[k - 1].stop,
                  IF k = Len(f) + 1 THEN Len(x) ELSE f[k].start - 1)]

Disjoint(m, n) == m.stop <= n.start \/ n.stop <= m.start

\* where the i-th object of the file begins
RECURSIVE PartStart(_, _)
PartStart(ps, i) ==
    IF i = 1 THEN Len(ListOpen) + 1
    ELSE PartStart(ps, i - 1) + Len(Shape(ps[i - 1])) + Len(ListSep)

PartSpan(ps, i) == [start |-> PartStart(ps, i), stop |-> PartStart(ps, i) + Len(Shape(ps[i]))]

ConfirmationLine == <<"Fixed", filepath>>

(***************************************************************************)
(* C2.  Idempotence: a run on the output of an earlier run of the same     *)
(* script finds no match of any rule and writes back the text it read.     *)
(***************************************************************************)
C2_Idempotent ==
    run >= 2 =>
       /\ AfterRule(1) => found1 = << >> /\ mid = text0
       /\ AfterRule(2) => found2 = << >> /\ content = text0
       /\ pc = "done" => disk = text0

\* a second run is over, and the first run had rewritten the file
C2_Witness ==
    /\ run = 2
    /\ pc = "done"
    /\ script = "megaprompt"
    /\ disk # FileText(parts)

(***************************************************************************)
(* C3.  Passthrough: the texts outside a rule's matches stand unchanged,   *)
(* in order, around the rule's replacements; a rule that matches nothing   *)
(* leaves its text as it is, and the run then still writes and prints.     *)
(***************************************************************************)
PassesThrough(r, x, f, y) ==
    LET out == OutSpans(script, r, x, f) IN
    /\ Len(y) = Len(x) + (IF f = << >> THEN 0 ELSE out[Len(f)].stop - f[Len(f)].stop)
    /\ Gaps(x, f) = Gaps(y, out)
    /\ f = << >> => y = x

C3_Passthrough ==
    /\ JustAfterRule(1) => PassesThrough(1, text0, found1, mid)
    /\ JustAfterRule(2) => PassesThrough(2, mid, found2, content)
    /\ (pc = "done" /\ found1 = << >> /\ found2 = << >>) =>
           /\ disk = text0
           /\ error = ""
           /\ stdout[Len(stdout)] = ConfirmationLine

\* the first rule replaced one object of two and the second rule matched nothing
C3_Witness ==
    /\ script = "megaprompt"
    /\ pc = "write"
    /\ Len(parts) = 2
    /\ Len(found1) = 1
    /\ found2 = << >>

(***************************************************************************)
(* C7.  Missing file: the run ends at the read with FileNotFoundError; no   *)
(* rule is applied, no file is created or written, nothing is printed.      *)
(* The confirmation line is printed only once the write is done.            *)
(***************************************************************************)
C7_MissingFile ==
    /\ parts = << >> =>
          /\ pc \in {"read", "crashed"}
          /\ ~exists
          /\ disk = << >>
          /\ content = << >>
          /\ found1 = << >> /\ found2 = << >>
          /\ stdout = << >>
          /\ pc = "crashed" => error = "FileNotFoundError"
    /\ pc = "crashed" => parts = << >>
    /\ Len(stdout) = (IF pc = "done" THEN run ELSE IF parts = << >> THEN 0 ELSE run - 1)
    /\ pc = "done" => exists /\ disk = content

\* the run on a missing file has ended
C7_Witness ==
    /\ pc = "crashed"
    /\ ~exists
    /\ error = "FileNotFoundError"

(***************************************************************************)
(* The object a match of x begins (its opening brace) and the object its   *)
(* replacement in y begins.                                                *)
(***************************************************************************)
BraceFrom(t, from) == CHOOSE q \in from..Len(t) : t[q] = "{" /\ \A z \in from..(q - 1) : t[z] # "{"

\* the replacement at span of y sets out, field by field, the flat object of
\* the match m of x
WellMapped(r, x, m, y, span) ==
    LET bx   == Brackets(x)
        by   == Brackets(y)
        p    == BraceFrom(x, m.start)
        q    == BraceFrom(y, span.start)
        conf == ObjectOf(y, by, q, "confidence")
        meta == ObjectOf(y, by, q, "metadata")
    IN /\ q < span.stop
       /\ Carries(y, by, q, x, bx, p,
                  IF r = 2 THEN <<"{", "}">> ELSE ValueOf(x, bx, p, "data"))
       /\ ValueOf(y, by, conf, "dataQuality") = Number(ValueOf(x, bx, p, "confidence"))
       /\ ValueOf(y, by, q, "success") = <<"true">>
       /\ ValueOf(y, by, meta, "taskType")
            = <<"'", "customer", "_", "profile", "'", " ", "as", " ", "any">>
       /\ ValueOf(y, by, meta, "model") = <<"'", "HAIKU", "'", " ", "as", " ", "any">>
       /\ ValueOf(y, by, meta, "fromCache") = <<"false">>
       /\ ValueOf(y, by, meta, "timestamp") = <<"Date", ".", "now", "(", ")">>
       /\ ObjClose(y, by, q) = span.stop - 5
       /\ SubSeq(y, span.stop - 4, span.stop - 1) = <<" ", "as", " ", "any">>

AllWellMapped(r, x, f, y) ==
    LET out == OutSpans(script, r, x, f)
    IN \A k \in 1..Len(f) : WellMapped(r, x, f[k], y, out[k])

(***************************************************************************)
(* C8.  Field mapping: every replacement, of either script and either      *)
(* rule, holds the captured values in their designated fields: overall and *)
(* dataQuality the confidence number (without a cast), sourceCount the     *)
(* dataPoints, metadata.extractorId the extractorId, timing.total the      *)
(* duration, data the payload; the other fields are the constants.         *)
(***************************************************************************)
C8_FieldMapping ==
    /\ JustAfterRule(1) => AllWellMapped(1, text0, found1, mid)
    /\ JustAfterRule(2) => AllWellMapped(2, mid, found2, content)

\* fix-synthesis-tests has rewritten an object whose confidence carried a cast
C8_Witness ==
    /\ script = "synthesis"
    /\ JustAfterRule(1)
    /\ \E k \in 1..Len(found1) : Group(text0, found1[k], 3) = <<" ", "as", " ", "any">>

(***************************************************************************)
(* C9.  Rule 2 of fix-megaprompt-tests drops the insights: its replacement *)
(* has the empty object as data and nothing of the insights list, which is *)
(* gone from the text; the other captured fields are carried over.         *)
(***************************************************************************)
Count(t, w) == Cardinality({i \in 1..Len(t) : t[i] = w})

InsightsDropped(x, m, y, span) ==
    LET bx   == Brackets(x)
        p    == BraceFrom(x, m.start)
        list == ValueOf(x, bx, ObjectOf(x, bx, p, "metadata"), "insights")
        rep  == SubSeq(y, span.start, span.stop - 1)
    IN /\ list # << >>
       /\ Count(rep, "insights") = 0
       /\ Count(rep, "[") = 0
       /\ \A i \in 1..Len(rep) : ~HasAt(rep, i, list)
       /\ WellMapped(2, x, m, y, span)

C9_InsightsDropped ==
    JustAfterRule(2) =>
       /\ LET out == OutSpans(script, 2, mid, found2)
          IN \A k \in 1..Len(found2) : InsightsDropped(mid, found2[k], content, out[k])
       /\ Count(content, "insights") + Len(found2) <= Count(mid, "insights")

\* rule 2 has replaced an object
C9_Witness ==
    /\ JustAfterRule(2)
    /\ Len(found2) >= 1

(***************************************************************************)
(* C10.  Objects the patterns do not fit are skipped in silence: a flat    *)
(* object with a brace inside its data (either script), and in             *)
(* fix-megaprompt-tests one without the cast as ExtractionResult or with   *)
(* empty data and no insights, stand unchanged in the output;              *)
(* fix-synthesis-tests rewrites a flat object with empty data, and one     *)
(* followed by a cast, which then stands after the inserted as any.        *)
(***************************************************************************)
Skipped(s) == IF s = "synthesis" THEN {"nested10"} ELSE {"nested2", "bare2", "empty2"}

Untouched(span, f) == \A k \in 1..Len(f) : Disjoint(span, f[k])

\* the span of text0, outside every match, as it lies in mid
InMid(span) ==
    [start |-> Moved(script, 1, text0, found1, span.start),
     stop  |-> Moved(script, 1, text0, found1, span.stop)]

\* the position of mid, outside every match, as it lies in the final text
InFinal(p) == IF RuleCount(script) = 1 THEN p ELSE Moved(script, 2, mid, found2, p)

StandsUnchanged(i) ==
    LET span == PartSpan(parts, i) IN
    /\ Untouched(span, found1)
    /\ RuleCount(script) = 2 => Untouched(InMid(span), found2)
    /\ SubSeq(disk, InFinal(InMid(span).start), InFinal(InMid(span).stop) - 1) = Shape(parts[i])

\* the i-th object of the file was matched by the (only) rule of fix-synthesis-tests
RewrittenBySynthesis(i) ==
    \E k \in 1..Len(found1) :
       LET span == PartSpan(parts, i)
           out  == OutSpans(script, 1, text0, found1)[k]
       IN /\ span.start <= found1[k].start
          /\ found1[k].stop <= span.stop
          /\ IsNested(disk, Brackets(disk), BraceFrom(disk, out.start))
          /\ SubSeq(disk, out.stop, out.stop + (span.stop - found1[k].stop) - 1)
               = SubSeq(text0, found1[k].stop, span.stop - 1)

C10_SilentSkip ==
    (pc = "done" /\ run = 1) =>
       /\ error = ""
       /\ \A i \in 1..Len(parts) :
            /\ parts[i] \in Skipped(script) => StandsUnchanged(i)
            /\ (script = "synthesis" /\ parts[i] \in {"empty10", "canon10"}) =>
                  RewrittenBySynthesis(i)

\* a run is over on a file that held an object to skip and one with a cast after it
C10_Witness ==
    /\ pc = "done"
    /\ run = 1
    /\ script = "synthesis"
    /\ parts = <<"canon10", "nested10">>

(***************************************************************************)
(* C6.  Every occurrence is rewritten: when the occurrences of the         *)
(* script's patterns in the file do not overlap, and there are k of them,  *)
(* the output holds k objects of the nested form, one in the place of each *)
(* occurrence, no occurrence of a pattern is left, and an object of        *)
(* another shape is as it was.                                             *)
(***************************************************************************)
NestedAt(t) == LET b == Brackets(t) IN {q \in Braces(t) : IsNested(t, b, q)}

Occurrences(t, w) == {i \in 1..Len(t) : HasAt(t, i, w)}

\* the occurrences of the second pattern in the text the run read
Occ2 == IF RuleCount(script) = 2 THEN FindAll(text0, Pattern(script, 2)) ELSE << >>

Separate == \A i \in 1..Len(found1), j \in 1..Len(Occ2) : Disjoint(found1[i], Occ2[j])

C6_AllRewritten ==
    (pc = "done" /\ run = 1 /\ Separate) =>
       LET now   == NestedAt(disk)
           out1  == OutSpans(script, 1, text0, found1)
           out2  == OutSpans(script, 2, mid, found2)
       IN /\ Cardinality(now) = Len(found1) + Len(Occ2) + Cardinality(NestedAt(text0))
          /\ \A k \in 1..Len(found1) :
                InFinal(BraceFrom(mid, out1[k].start)) \in now
          /\ \A k \in 1..Len(found2) : BraceFrom(disk, out2[k].start) \in now
          /\ \A r \in 1..RuleCount(script) : FindAll(disk, Pattern(script, r)) = << >>
          /\ Cardinality(Occurrences(disk, UnrelatedObject))
               = Cardinality(Occurrences(text0, UnrelatedObject))

\* the scenario: ScenarioK occurrences and one unrelated object, the run over
C6_Witness ==
    /\ pc = "done"
    /\ run = 1
    /\ parts \in ScenarioLists(script)
    /\ Len(found1) + Len(found2) = ScenarioK
    /\ Cardinality(NestedAt(disk)) = ScenarioK
    /\ Cardinality(Occurrences(disk, UnrelatedObject)) = 1

(***************************************************************************)
(* C1.  Capture fidelity, as claimed: for every flat object literal of the *)
(* input (the six fields, in whatever layout) the output holds a nested    *)
(* object with its extractorId, confidence, dataPoints, duration and data. *)
(***************************************************************************)
C1_CaptureFidelity ==
    (pc = "done" /\ run = 1) =>
       LET b0 == Brackets(text0)
           bd == Brackets(disk)
       IN \A p \in Braces(text0) :
             IsFlat(text0, b0, p) =>
                \E q \in Braces(disk) :
                   Carries(disk, bd, q, text0, b0, p, ValueOf(text0, b0, p, "data"))

(***************************************************************************)
(* C4.  Order sensitivity, as claimed: in fix-megaprompt-tests no match of *)
(* rule 2 holds a lexeme of a replacement of rule 1, and no span of the    *)
(* text read is matched by both rules.                                     *)
(***************************************************************************)
C4_RulesApart ==
    JustAfterRule(2) =>
       /\ LET out == OutSpans(script, 1, text0, found1)
          IN \A i \in 1..Len(found2), j \in 1..Len(found1) : Disjoint(found2[i], out[j])
       /\ Separate

(***************************************************************************)
(* C5.  Indentation, as claimed: in fix-megaprompt-tests the captured      *)
(* white space (group 1) is the indentation of the block, and every line   *)
(* of the replacement begins with it.                                      *)
(***************************************************************************)
LineStarts(t) == {1} \cup {i + 1 : i \in {j \in 1..(Len(t) - 1) : t[j] = NL}}

\* the white space w after its last line break: what stands on the line of
\* the brace
OnLine(w) ==
    LET breaks == {j \in 1..Len(w) : w[j] = NL}
    IN IF breaks = {} THEN w
       ELSE SubSeq(w, (CHOOSE j \in breaks : \A z \in breaks : z <= j) + 1, Len(w))

\* the replacement from the line of its opening brace on
FromBrace(rep) ==
    LET q == BraceFrom(rep, 1)
        starts == {ls \in LineStarts(rep) : ls <= q}
    IN SubSeq(rep, CHOOSE ls \in starts : \A z \in starts : z <= ls, Len(rep))

\* the lines of the replacement: none is blank, each begins with the
\* indentation, and the closing brace stands where the one it replaces stood
EveryLineIndented(r, x, f) ==
    \A k \in 1..Len(f) :
       LET rep    == Replacement(script, r, x, f[k])
           indent == Group(x, f[k], 1)
           block  == FromBrace(rep)
           q      == BraceFrom(x, f[k].start)
           close  == ObjClose(x, Brackets(x), q)
       IN /\ HasAt(rep, 1, indent)
          /\ \A ls \in LineStarts(block) :
                /\ HasAt(block, ls, OnLine(indent))
                /\ ls <= Len(block) /\ block[ls] # NL
          /\ \E n \in 0..(Len(block) - 5) :
                /\ Len(block) - 4 - n \in LineStarts(block)
                /\ HasAt(block, Len(block) - 4 - n, Sp(n) \o <<"}">>)
                /\ close - n - 1 >= 1
                /\ HasAt(x, close - n - 1, <<NL>> \o Sp(n))

C5_IndentationPreserved ==
    script = "megaprompt" =>
       /\ JustAfterRule(1) => EveryLineIndented(1, text0, found1)
       /\ JustAfterRule(2) => EveryLineIndented(2, mid, found2)

=============================================================================
